---- MODULE Spec2Model ----
(***************************************************************************)
(* One player of the multi-player bandit strategies of src/strategies.py:  *)
(* the shared Player state (clear, receive_reward) and the four variants   *)
(* PlayerRandTopOld, PlayerRandTop, PlayerMCTop and PlayerSelfish          *)
(* (choose_arm_to_play).  The index policy is external: compute_index may  *)
(* return any index vector.  The code only compares indices of one vector  *)
(* with each other (<=, >=, argsort, randmax), so a vector of reals is     *)
(* modelled by the vector of its ranks: every weak order of the K arms is  *)
(* one vector over 0..K-1 whose values have no gap.                        *)
(* The field self.best_arms (line 47) is written by clear() only and never *)
(* read; the variable best_arms below is the local of choose_arm_to_play.  *)
(* Spec follows one player that was built with K >= M >= 1.  SpecPlayers  *)
(* starts before the players are built: strategy() or the constructor is   *)
(* called with any class and any counts, and the players it returns are    *)
(* called in any interleaving.                                             *)
(***************************************************************************)
EXTENDS Integers, Sequences, FiniteSets

\* ---------------------------------------------------------------- bounds
\* The numbers of arms K that are explored.  The state space grows with K
\* faster than K! (the index vectors times the draw counts times the arms):
\* K = 3 is the largest count whose runs end within minutes.
ArmCounts == {1, 2, 3}
MaxRounds == 2      \* rounds played after the K warm-start rounds
MaxCum == 1         \* rewards, and their total over a run, are in 0..MaxCum

\* my_arm = None
NoArm == -1

Variants == {"RandTopOld", "RandTop", "MCTop", "Selfish"}

VARIABLES
    variant,        \* the class of the player
    nb_arms,        \* K
    nb_players,     \* M
    nb_draws,       \* [0..K-1 -> Nat]
    cum_rewards,    \* [0..K-1 -> Nat]
    t,
    ucbs,           \* [0..K-1 -> 0..K-1]
    my_arm,         \* NoArm or 0..K-1
    has_collided,
    is_on_chair,
    op,             \* the last call: "clear", "choose" or "receive"
    raised,         \* the last choose_arm_to_play raised ValueError
    branch,         \* the path the last choose_arm_to_play took
    best_arms,      \* its local best_arms (<<>> if not computed)
    drawn_from,     \* the set it handed to randmax / np.random.choice
    args,           \* <<reward, collision>> of the last receive_reward
    kept_through,   \* collisions in a row an MCTop player on chair sat out
    last_index,     \* the last vector compute_index returned (<<>> if none)
    built,          \* how the call that builds the players ended
    players,        \* the list of players built: their object identities
    heap,           \* the fields of the players that are not `cur`
    cur             \* the position in `players` of the player called

vars == <<variant, nb_arms, nb_players, nb_draws, cum_rewards, t, ucbs,
          my_arm, has_collided, is_on_chair, op, raised, branch, best_arms,
          drawn_from, args, kept_through, last_index, built, players, heap,
          cur>>

config == <<variant, nb_arms, nb_players>>
stats == <<nb_draws, cum_rewards, t, has_collided>>
objects == <<built, players, heap, cur>>
state == <<nb_draws, cum_rewards, t, ucbs, my_arm, has_collided, is_on_chair,
           op, raised, branch, best_arms, drawn_from, args, kept_through,
           last_index>>

Arms == 0 .. (nb_arms - 1)

zeros(n) == [a \in 0 .. (n - 1) |-> 0]

Range(s) == {s[i] : i \in 1 .. Len(s)}

\* ------------------------------------------------------ external helpers
\* src.utils.randmax: an index attaining the maximum, any of them.
randmax(v) == {a \in DOMAIN v : \A b \in DOMAIN v : v[b] <= v[a]}

\* the rank vectors over n arms: values 0..n-1 with no gap
RankVectors ==
    [n \in ArmCounts |->
        {u \in [0 .. (n - 1) -> 0 .. (n - 1)] :
            \A a \in 0 .. (n - 1) : u[a] = 0 \/ \E b \in 0 .. (n - 1) : u[b] = u[a] - 1}]

\* the values IndexPolicy.compute_index may return
IndexVectors == RankVectors[nb_arms]

\* the orders of n arms
Orders ==
    [n \in ArmCounts |->
        {p \in [1 .. n -> 0 .. (n - 1)] : \A i, j \in 1 .. n : i # j => p[i] # p[j]}]

\* ------------------------------------------------------------ pure parts
neg(v) == [a \in DOMAIN v |-> 0 - v[a]]

\* np.argsort(ucbs_new)[::-1]: the arms by descending index; the order of
\* equal indices is the sort's own, any order consistent with the values.
argsort_desc(u) ==
    {p \in Orders[nb_arms] : \A i \in 1 .. (nb_arms - 1) : u[p[i]] >= u[p[i + 1]]}

\* np.argsort(ucbs_new)[::-1][:self.nb_players]
\* (a slice past the end of the array stops at its end)
top_arms(u) ==
    {SubSeq(p, 1, IF nb_players < nb_arms THEN nb_players ELSE nb_arms) :
        p \in argsort_desc(u)}

\* mutant: the first of best_arms instead of the last
max_ucb_of_best_arms(u_new, best) == u_new[best[1]]

\* ucbs_new[best_arms[-1]]
min_ucb_of_best_arms(u_new, best) == u_new[best[Len(best)]]

\* mutant: the old index compared with < instead of <=
new_arms_to_choose_strict(u_old, u_new, arm, best) ==
    {a \in Arms : /\ u_old[a] < u_old[arm]
                  /\ u_new[a] >= min_ucb_of_best_arms(u_new, best)}

\* mutant: the fresh index is not looked at
new_arms_to_choose_old_only(u_old, u_new, arm, best) ==
    {a \in Arms : u_old[a] <= u_old[arm]}

\* np.where((self.ucbs <= self.ucbs[self.my_arm]) &
\*          (ucbs_new >= min_ucb_of_best_arms))[0]
new_arms_to_choose(u_old, u_new, arm, best) ==
    {a \in Arms : /\ u_old[a] <= u_old[arm]
                  /\ u_new[a] >= min_ucb_of_best_arms(u_new, best)}

\* mutant: np.all instead of np.any
all_zero_draws == \A a \in Arms : nb_draws[a] = 0

\* mutant: only the first arm is looked at
first_zero_draws == nb_draws[0] = 0

\* np.any(self.nb_draws == 0)
any_zero_draws == \E a \in Arms : nb_draws[a] = 0

\* --------------------------------------------------------------- objects
\* the fields of the player `cur`, as one value
fields ==
    [nb_draws |-> nb_draws, cum_rewards |-> cum_rewards, t |-> t, ucbs |-> ucbs,
     my_arm |-> my_arm, has_collided |-> has_collided,
     is_on_chair |-> is_on_chair, op |-> op, raised |-> raised,
     branch |-> branch, best_arms |-> best_arms, drawn_from |-> drawn_from,
     args |-> args, kept_through |-> kept_through, last_index |-> last_index]

\* the fields of a player when Player.clear returns
after_clear(n) ==
    [nb_draws |-> zeros(n), cum_rewards |-> zeros(n), t |-> 0, ucbs |-> zeros(n),
     my_arm |-> NoArm, has_collided |-> FALSE, is_on_chair |-> FALSE,
     op |-> "clear", raised |-> FALSE, branch |-> "none", best_arms |-> <<>>,
     drawn_from |-> {}, args |-> <<>>, kept_through |-> 0, last_index |-> <<>>]

\* no player: what stands in the variables before one is built, and in the
\* heap at the place of the player `cur`
absent == [after_clear(0) EXCEPT !.op = "none"]

\* the variables become the fields s
become(s) ==
    /\ nb_draws' = s.nb_draws
    /\ cum_rewards' = s.cum_rewards
    /\ t' = s.t
    /\ ucbs' = s.ucbs
    /\ my_arm' = s.my_arm
    /\ has_collided' = s.has_collided
    /\ is_on_chair' = s.is_on_chair
    /\ op' = s.op
    /\ raised' = s.raised
    /\ branch' = s.branch
    /\ best_arms' = s.best_arms
    /\ drawn_from' = s.drawn_from
    /\ args' = s.args
    /\ kept_through' = s.kept_through
    /\ last_index' = s.last_index

\* ------------------------------------------------------------------ Init
Init ==
    /\ variant \in Variants
    /\ nb_arms \in ArmCounts
    /\ nb_players \in 1 .. nb_arms
    /\ nb_draws = zeros(nb_arms)
    /\ cum_rewards = zeros(nb_arms)
    /\ t = 0
    /\ ucbs = zeros(nb_arms)
    /\ my_arm = NoArm
    /\ has_collided = FALSE
    /\ is_on_chair = FALSE
    /\ op = "clear"
    /\ raised = FALSE
    /\ branch = "none"
    /\ best_arms = <<>>
    /\ drawn_from = {}
    /\ args = <<>>
    /\ kept_through = 0
    /\ last_index = <<>>
    /\ built = "constructed"
    /\ players = <<1>>
    /\ heap = <<absent>>
    /\ cur = 1

\* --------------------------------------------------------------- actions
\* mutant: clear() leaves ucbs as it is
clear_stale_ucbs ==
    /\ op \in {"choose", "receive"}
    /\ ~raised
    /\ nb_draws' = zeros(nb_arms)
    /\ cum_rewards' = zeros(nb_arms)
    /\ t' = 0
    /\ my_arm' = NoArm
    /\ has_collided' = FALSE
    /\ is_on_chair' = FALSE
    /\ op' = "clear"
    /\ branch' = "none"
    /\ best_arms' = <<>>
    /\ drawn_from' = {}
    /\ args' = <<>>
    /\ kept_through' = 0
    /\ last_index' = <<>>
    /\ UNCHANGED <<config, objects, raised, ucbs>>

\* Player.clear
clear ==
    /\ op \in {"choose", "receive"}
    /\ ~raised
    /\ nb_draws' = zeros(nb_arms)
    /\ cum_rewards' = zeros(nb_arms)
    /\ t' = 0
    /\ ucbs' = zeros(nb_arms)
    /\ my_arm' = NoArm
    /\ has_collided' = FALSE
    /\ is_on_chair' = FALSE
    /\ op' = "clear"
    /\ branch' = "none"
    /\ best_arms' = <<>>
    /\ drawn_from' = {}
    /\ args' = <<>>
    /\ kept_through' = 0
    /\ last_index' = <<>>
    /\ UNCHANGED <<config, objects, raised>>

\* the environment calls choose_arm_to_play, then receive_reward
may_choose == op \in {"clear", "receive"} /\ ~raised
may_receive == op = "choose" /\ ~raised /\ t < nb_arms + MaxRounds

RECURSIVE total(_, _)
total(v, n) == IF n = 0 THEN 0 ELSE v[n - 1] + total(v, n - 1)

\* the rewards the environment may pay
Rewards == 0 .. MaxCum

\* the accumulated rewards stay within the bound
within_cap(r) == total(cum_rewards, nb_arms) + r <= MaxCum

\* the warm-start lines shared by the four variants:
\*   self.my_arm = randmax(-self.nb_draws); return self.my_arm
warm_start ==
    /\ drawn_from' = randmax(neg(nb_draws))
    /\ my_arm' \in drawn_from'
    /\ branch' = "warm"
    /\ best_arms' = <<>>
    /\ op' = "choose"
    /\ args' = <<>>
    /\ UNCHANGED <<config, objects, stats, ucbs, is_on_chair, raised, kept_through,
                   last_index>>

\* self.my_arm = np.random.choice(S) (ValueError if S is empty), then the
\* statements after it: is_on_chair, self.ucbs = ucbs_new
draw(S, br, u_new, best, chair) ==
    /\ drawn_from' = S
    /\ branch' = br
    /\ best_arms' = best
    /\ op' = "choose"
    /\ args' = <<>>
    /\ kept_through' = 0
    /\ last_index' = u_new
    /\ IF S = {}
       THEN /\ raised' = TRUE
            /\ UNCHANGED <<my_arm, ucbs, is_on_chair>>
       ELSE /\ my_arm' \in S
            /\ ucbs' = u_new
            /\ is_on_chair' = chair
            /\ raised' = FALSE
    /\ UNCHANGED <<config, objects, stats>>

\* mutant: the branch that keeps my_arm returns without refreshing ucbs
keep_stale(br, u_new, best, chair, sat_out) ==
    /\ drawn_from' = {}
    /\ branch' = br
    /\ best_arms' = best
    /\ op' = "choose"
    /\ args' = <<>>
    /\ kept_through' = sat_out
    /\ last_index' = u_new
    /\ is_on_chair' = chair
    /\ UNCHANGED <<config, objects, stats, my_arm, raised, ucbs>>

\* no draw: my_arm is kept
keep(br, u_new, best, chair, sat_out) ==
    /\ drawn_from' = {}
    /\ branch' = br
    /\ best_arms' = best
    /\ op' = "choose"
    /\ args' = <<>>
    /\ kept_through' = sat_out
    /\ last_index' = u_new
    /\ ucbs' = u_new
    /\ is_on_chair' = chair
    /\ UNCHANGED <<config, objects, stats, my_arm, raised>>

\* mutant: a collision on an arm of the top-M set re-samples it
RandTopOld_decide_resample(u_new, best) ==
    IF my_arm \notin Range(best)
    THEN IF has_collided
         THEN draw(Range(best), "best", u_new, best, is_on_chair)
         ELSE draw(new_arms_to_choose(ucbs, u_new, my_arm, best), "filtered",
                   u_new, best, is_on_chair)
    ELSE IF has_collided
         THEN draw(Range(best), "best", u_new, best, is_on_chair)
         ELSE keep("keep", u_new, best, is_on_chair, 0)

\* mutant: an arm that left the top-M set is re-drawn from the filtered set
\* after a collision too
RandTopOld_decide_filtered(u_new, best) ==
    IF my_arm \notin Range(best)
    THEN draw(new_arms_to_choose(ucbs, u_new, my_arm, best), "filtered",
              u_new, best, is_on_chair)
    ELSE keep("keep", u_new, best, is_on_chair, 0)

\* PlayerRandTopOld.choose_arm_to_play
RandTopOld_decide(u_new, best) ==
    IF my_arm \notin Range(best)
    THEN IF has_collided
         THEN draw(Range(best), "best", u_new, best, is_on_chair)
         ELSE draw(new_arms_to_choose(ucbs, u_new, my_arm, best), "filtered",
                   u_new, best, is_on_chair)
    ELSE keep("keep", u_new, best, is_on_chair, 0)

RandTopOld_choose ==
    /\ variant = "RandTopOld"
    /\ may_choose
    /\ IF any_zero_draws
       THEN warm_start
       ELSE \E u_new \in IndexVectors : \E best \in top_arms(u_new) :
                RandTopOld_decide(u_new, best)

\* PlayerRandTop.choose_arm_to_play
RandTop_decide(u_new, best) ==
    IF my_arm \notin Range(best)
    THEN draw(new_arms_to_choose(ucbs, u_new, my_arm, best), "filtered",
              u_new, best, is_on_chair)
    ELSE IF has_collided
         THEN draw(Range(best), "best", u_new, best, is_on_chair)
         ELSE keep("keep", u_new, best, is_on_chair, 0)

RandTop_choose ==
    /\ variant = "RandTop"
    /\ may_choose
    /\ IF any_zero_draws
       THEN warm_start
       ELSE \E u_new \in IndexVectors : \E best \in top_arms(u_new) :
                RandTop_decide(u_new, best)

\* mutant: the kept arm is not marked as a chair
MCTop_decide_no_chair(u_new, best) ==
    IF my_arm \notin Range(best)
    THEN draw(new_arms_to_choose(ucbs, u_new, my_arm, best), "filtered",
              u_new, best, FALSE)
    ELSE IF has_collided /\ ~is_on_chair
         THEN draw(Range(best), "best", u_new, best, FALSE)
         ELSE keep("chair", u_new, best, is_on_chair, 0)

\* mutant: a collision re-samples the arm whether on chair or not
MCTop_decide_no_tolerance(u_new, best) ==
    IF my_arm \notin Range(best)
    THEN draw(new_arms_to_choose(ucbs, u_new, my_arm, best), "filtered",
              u_new, best, FALSE)
    ELSE IF has_collided
         THEN draw(Range(best), "best", u_new, best, FALSE)
         ELSE keep("chair", u_new, best, TRUE, 0)

\* mutant: an arm that left the top-M set is re-drawn without leaving the chair
MCTop_decide_chair_kept(u_new, best) ==
    IF my_arm \notin Range(best)
    THEN draw(new_arms_to_choose(ucbs, u_new, my_arm, best), "filtered",
              u_new, best, is_on_chair)
    ELSE IF has_collided /\ ~is_on_chair
         THEN draw(Range(best), "best", u_new, best, FALSE)
         ELSE keep("chair", u_new, best, TRUE,
                   IF has_collided /\ is_on_chair THEN kept_through + 1 ELSE 0)

\* PlayerMCTop.choose_arm_to_play
MCTop_decide(u_new, best) ==
    IF my_arm \notin Range(best)
    THEN draw(new_arms_to_choose(ucbs, u_new, my_arm, best), "filtered",
              u_new, best, FALSE)
    ELSE IF has_collided /\ ~is_on_chair
         THEN draw(Range(best), "best", u_new, best, FALSE)
         ELSE keep("chair", u_new, best, TRUE,
                   IF has_collided /\ is_on_chair THEN kept_through + 1 ELSE 0)

MCTop_choose ==
    /\ variant = "MCTop"
    /\ may_choose
    /\ IF any_zero_draws
       THEN warm_start
       ELSE \E u_new \in IndexVectors : \E best \in top_arms(u_new) :
                MCTop_decide(u_new, best)

\* mutant: the index is computed first, the arm taken from the fresh vector
Selfish_decide_fresh(u_new) ==
    /\ drawn_from' = randmax(u_new)
    /\ my_arm' \in drawn_from'
    /\ ucbs' = u_new
    /\ last_index' = u_new
    /\ branch' = "selfish"
    /\ best_arms' = <<>>
    /\ op' = "choose"
    /\ args' = <<>>
    /\ UNCHANGED <<config, objects, stats, is_on_chair, raised, kept_through>>

\* PlayerSelfish.choose_arm_to_play
Selfish_decide(u_new) ==
    /\ drawn_from' = randmax(ucbs)
    /\ my_arm' \in drawn_from'
    /\ ucbs' = u_new
    /\ last_index' = u_new
    /\ branch' = "selfish"
    /\ best_arms' = <<>>
    /\ op' = "choose"
    /\ args' = <<>>
    /\ UNCHANGED <<config, objects, stats, is_on_chair, raised, kept_through>>

Selfish_choose ==
    /\ variant = "Selfish"
    /\ may_choose
    /\ IF any_zero_draws
       THEN warm_start
       ELSE \E u_new \in IndexVectors : Selfish_decide(u_new)

\* mutant: the draw count is assigned, not incremented
base_receive_reward_assign(reward, collision) ==
    /\ cum_rewards' = [cum_rewards EXCEPT ![my_arm] = @ + reward]
    /\ nb_draws' = [nb_draws EXCEPT ![my_arm] = 1]
    /\ has_collided' = collision
    /\ t' = t + 1
    /\ op' = "receive"
    /\ branch' = "none"
    /\ best_arms' = <<>>
    /\ drawn_from' = {}
    /\ UNCHANGED <<config, objects, ucbs, my_arm, is_on_chair, raised, kept_through,
                   last_index>>

\* mutant: the reward is assigned, not accumulated
base_receive_reward_overwrite(reward, collision) ==
    /\ cum_rewards' = [cum_rewards EXCEPT ![my_arm] = reward]
    /\ nb_draws' = [nb_draws EXCEPT ![my_arm] = @ + 1]
    /\ has_collided' = collision
    /\ t' = t + 1
    /\ op' = "receive"
    /\ branch' = "none"
    /\ best_arms' = <<>>
    /\ drawn_from' = {}
    /\ UNCHANGED <<config, objects, ucbs, my_arm, is_on_chair, raised, kept_through,
                   last_index>>

\* Player.receive_reward(reward, collision)
base_receive_reward(reward, collision) ==
    /\ cum_rewards' = [cum_rewards EXCEPT ![my_arm] = @ + reward]
    /\ nb_draws' = [nb_draws EXCEPT ![my_arm] = @ + 1]
    /\ has_collided' = collision
    /\ t' = t + 1
    /\ op' = "receive"
    /\ branch' = "none"
    /\ best_arms' = <<>>
    /\ drawn_from' = {}
    /\ UNCHANGED <<config, objects, ucbs, my_arm, is_on_chair, raised, kept_through,
                   last_index>>

receive_reward ==
    /\ variant # "Selfish"
    /\ may_receive
    /\ \E reward \in Rewards, collision \in BOOLEAN :
           /\ within_cap(reward)
           /\ args' = <<reward, collision>>
           /\ base_receive_reward(reward, collision)

\* PlayerSelfish.receive_reward(reward, collision)
\*   return super().receive_reward(reward_no_sensing, False)
Selfish_super_receive_reward(r, c) == base_receive_reward(r, c)

\* mutant: the reward is passed on whatever the collision flag
reward_sensed(reward, collision) == reward

reward_no_sensing(reward, collision) == IF collision THEN 0 ELSE reward

Selfish_receive_reward ==
    /\ variant = "Selfish"
    /\ may_receive
    /\ \E reward \in Rewards, collision \in BOOLEAN :
           /\ within_cap(reward_no_sensing(reward, collision))
           /\ args' = <<reward, collision>>
           /\ Selfish_super_receive_reward(reward_no_sensing(reward, collision), FALSE)

Next ==
    \/ clear
    \/ RandTopOld_choose
    \/ RandTop_choose
    \/ MCTop_choose
    \/ Selfish_choose
    \/ receive_reward
    \/ Selfish_receive_reward

Spec == Init /\ [][Next]_vars

\* ----------------------------------------------------- building the players
\* the classes a caller may hand to strategy(): the four variants, the base
\* class, some other sub-class of Player, and a class that is no Player
Classes == Variants \cup {"Player", "OtherPlayer", "NotAPlayer"}

\* the counts a caller may pass as nb_arms and nb_players
Counts == {-1, 0, 1, 2}

\* mutant: only the four variants pass
issubclass_of_variants(c) == c \in Variants

\* issubclass(strategy, Player): a class is a sub-class of itself
issubclass_Player(c) == c \in Variants \cup {"Player", "OtherPlayer"}

\* np.zeros(n) raises ValueError for a negative n
np_zeros_raises(n) == n < 0

\* Player.__init__ raises: clear() calls np.zeros(self.nb_arms) and
\* np.zeros(self.nb_players)
init_raises == np_zeros_raises(nb_arms) \/ np_zeros_raises(nb_players)

\* mutant: one instance, listed n times
same_instance(n) == [i \in 1 .. n |-> 1]

\* [strategy(...) for _ in range(nb_players)]: an instance per iteration
new_instances(n) == [i \in 1 .. n |-> i]

\* the players ps are built and the first of them is `cur`
hand_over(ps, how) ==
    /\ players' = ps
    /\ built' = how
    /\ IF ps = <<>>
       THEN /\ heap' = <<>>
            /\ cur' = 0
            /\ UNCHANGED state
       ELSE /\ heap' = [o \in Range(ps) |->
                           IF o = ps[1] THEN absent ELSE after_clear(nb_arms)]
            /\ cur' = 1
            /\ become(after_clear(nb_arms))

\* an exception leaves the caller without any player
fail(exception) ==
    /\ built' = exception
    /\ UNCHANGED <<players, heap, cur, state>>

\* strategy(strategy, nb_arms, nb_players, policy)
strategy ==
    /\ built = "pending"
    /\ IF ~issubclass_Player(variant)
       THEN fail("AssertionError")
       ELSE IF nb_players >= 1 /\ init_raises
            THEN fail("ValueError")
            ELSE hand_over(new_instances(nb_players), "returned")
    /\ UNCHANGED config

\* a player built directly: Player(nb_arms, nb_players, policy), or a
\* sub-class in place of Player
Player_init ==
    /\ built = "pending"
    /\ issubclass_Player(variant)
    /\ IF init_raises
       THEN fail("ValueError")
       ELSE hand_over(<<1>>, "constructed")
    /\ UNCHANGED config

\* the environment turns to the player at position i: what is reached
\* through players[cur] is put back, what is reached through players[i] is
\* taken up
turn_to(i) ==
    /\ built = "returned"
    /\ i # cur
    /\ LET put == [heap EXCEPT ![players[cur]] = fields]
       IN  /\ become(put[players[i]])
           /\ heap' = [put EXCEPT ![players[i]] = absent]
    /\ cur' = i
    /\ UNCHANGED <<config, built, players>>

\* Player.choose_arm_to_play: raise NotImplementedError
Player_choose ==
    /\ variant = "Player"
    /\ may_choose
    /\ raised' = TRUE
    /\ UNCHANGED <<config, objects, stats, ucbs, my_arm, is_on_chair, op, branch,
                   best_arms, drawn_from, args, kept_through, last_index>>

\* the rounds each of n players is followed for: n players multiply the
\* states, so each further player is followed for two rounds less
horizon(n) == nb_arms + MaxRounds + 2 - 2 * n

\* the calls on the player `cur`.  A player built with nb_arms = 0 or
\* nb_players = 0 is not followed further.
calls ==
    /\ nb_arms >= 1
    /\ nb_players >= 1
    /\ Next
    /\ t' <= horizon(Len(players))

InitPending ==
    /\ variant \in Classes
    /\ nb_arms \in Counts
    /\ nb_players \in Counts
    /\ built = "pending"
    /\ players = <<>>
    /\ heap = <<>>
    /\ cur = 0
    /\ nb_draws = absent.nb_draws
    /\ cum_rewards = absent.cum_rewards
    /\ t = absent.t
    /\ ucbs = absent.ucbs
    /\ my_arm = absent.my_arm
    /\ has_collided = absent.has_collided
    /\ is_on_chair = absent.is_on_chair
    /\ op = absent.op
    /\ raised = absent.raised
    /\ branch = absent.branch
    /\ best_arms = absent.best_arms
    /\ drawn_from = absent.drawn_from
    /\ args = absent.args
    /\ kept_through = absent.kept_through
    /\ last_index = absent.last_index

NextPlayers ==
    \/ strategy
    \/ Player_init
    \/ \E i \in DOMAIN players : turn_to(i)
    \/ Player_choose
    \/ calls

SpecPlayers == InitPending /\ [][NextPlayers]_vars

\* ---------------------------------------------------------------- claims
\* what the claims speak of, stated on the state alone
ArmIds == 0 .. (nb_arms - 1)
SomeArmUnplayed == \E a \in ArmIds : nb_draws[a] = 0
EveryArmPlayed == \A a \in ArmIds : nb_draws[a] >= 1
RankingBranches == {"keep", "best", "filtered", "chair", "selfish"}
ChooseStep == op # "choose" /\ op' = "choose"
ReceiveStep == op = "choose" /\ op' = "receive"
MinDraws == CHOOSE m \in {nb_draws[a] : a \in ArmIds} : \A a \in ArmIds : m <= nb_draws[a]

\* C1: every choose_arm_to_play call of a round-alternating run completes
\* (raises nothing) and leaves my_arm defined with 0 <= my_arm < K, for every
\* variant, every K >= M >= 1, every index vector and every outcome.
C1_ArmValidity == op = "choose" => (~raised /\ my_arm \in ArmIds)

\* a call that drew the arm from the filtered candidate set, M < K
C1_Witness ==
    /\ op = "choose" /\ branch = "filtered" /\ ~raised
    /\ nb_arms = 3 /\ nb_players = 2 /\ my_arm \in ArmIds
    /\ has_collided

\* C2: a choose_arm_to_play call made while some arm has no draw selects an
\* arm whose draw count is the minimum (zero), drawn from all the arms that
\* attain it, whatever has_collided and the previous arm are.
C2_WarmStartCoverage ==
    (op = "choose" /\ SomeArmUnplayed) =>
        /\ branch = "warm"
        /\ MinDraws = 0
        /\ nb_draws[my_arm] = MinDraws
        /\ drawn_from = {a \in ArmIds : nb_draws[a] = MinDraws}

\* a warm-start call after a collision, with two unplayed arms to pick from
C2_Witness ==
    /\ op = "choose" /\ SomeArmUnplayed /\ has_collided
    /\ Cardinality(drawn_from) = 2 /\ nb_arms = 3
    /\ my_arm = 2 /\ nb_draws[1] = 0 /\ nb_draws[0] = 1

\* C3: no variant evaluates the policy or takes a ranking-based branch while
\* some arm has no draw; the first ranking-based decision comes after every
\* arm was played, and after that no call takes the warm-start branch again
\* (until clear()).
C3_RankingAfterSampling ==
    [][ /\ ChooseStep =>
            /\ branch' \in RankingBranches => EveryArmPlayed
            /\ EveryArmPlayed => branch' \in RankingBranches
            /\ ucbs' # ucbs => EveryArmPlayed
        /\ (op' # "clear" /\ EveryArmPlayed) => EveryArmPlayed' ]_vars

\* the first ranking-based decision, right after the K-th play
C3_Witness ==
    /\ op = "choose" /\ branch \in RankingBranches
    /\ t = nb_arms /\ nb_arms = 3 /\ \A a \in ArmIds : nb_draws[a] = 1

\* C4: without clear(), no nb_draws entry ever decreases or is negative;
\* receive_reward raises the entry of my_arm by one and no other, and
\* choose_arm_to_play changes none.
C4_DrawCountMonotone ==
    [][ op' # "clear" =>
            /\ \A a \in ArmIds : 0 <= nb_draws[a] /\ nb_draws[a] <= nb_draws'[a]
            /\ ReceiveStep =>
                    \A a \in ArmIds :
                        nb_draws'[a] = nb_draws[a] + (IF a = my_arm THEN 1 ELSE 0)
            /\ ChooseStep => nb_draws' = nb_draws ]_vars

\* an arm played for the second time
C4_Witness == op = "receive" /\ my_arm \in ArmIds /\ nb_draws[my_arm] = 2

\* the top-M set and the smallest index in it, stated on the values alone
IsTopM(S, u) ==
    /\ S \subseteq ArmIds
    /\ Cardinality(S) = nb_players
    /\ \A a \in S : \A b \in ArmIds \ S : u[a] >= u[b]
MinOver(S, u) == CHOOSE m \in {u[a] : a \in S} : \A a \in S : m <= u[a]
RECURSIVE SumUpTo(_, _)
SumUpTo(v, n) == IF n = 0 THEN 0 ELSE v[n - 1] + SumUpTo(v, n - 1)
PostWarmChoose == ChooseStep /\ EveryArmPlayed
ArmInTopM == my_arm \in Range(best_arms') /\ IsTopM(Range(best_arms'), ucbs')

C6_ChairSemantics ==
    [][ /\ (variant = "MCTop" /\ PostWarmChoose /\ ArmInTopM
                /\ (~has_collided \/ is_on_chair)) =>
            (is_on_chair' /\ my_arm' = my_arm)
        /\ (variant = "MCTop" /\ ReceiveStep) =>
            (is_on_chair' = is_on_chair /\ my_arm' = my_arm) ]_vars

\* on chair at the third call after warm-start, a collision just sat out
C6_Witness ==
    /\ variant = "MCTop" /\ op = "choose" /\ is_on_chair /\ has_collided
    /\ t = nb_arms + 2 /\ kept_through >= 1 /\ nb_arms = 3 /\ nb_players = 2

\* C7 as claimed: a PlayerMCTop on chair sits out one collision and then
\* gives up its arm (it never keeps the arm through two collisions in a row).
C7_GivesUpAfterOneCollision == kept_through <= 1

\* C7 amended: a PlayerMCTop on chair never gives up its arm because of
\* collisions: with is_on_chair and has_collided true, the call keeps my_arm
\* and the chair, drawing nothing, whenever the arm is in the top-M set,
\* however many collisions came before; it re-samples (from the filtered
\* candidate set, leaving the chair) only when the arm left the top-M set.
C7_ChairHolderNeverVacates ==
    [][ (variant = "MCTop" /\ PostWarmChoose /\ is_on_chair /\ has_collided) =>
            IF my_arm \in Range(best_arms')
            THEN /\ my_arm' = my_arm /\ is_on_chair' /\ drawn_from' = {}
                 /\ kept_through' = kept_through + 1
            ELSE /\ branch' = "filtered" /\ ~is_on_chair'
                 /\ my_arm' \in drawn_from' ]_vars

\* the arm kept through two collisions in a row
C7_Witness ==
    /\ variant = "MCTop" /\ op = "choose" /\ kept_through = 2
    /\ is_on_chair /\ has_collided /\ nb_players < nb_arms

\* C8: PlayerSelfish.receive_reward(reward, collision) adds 0 to
\* cum_rewards[my_arm] if collision and reward otherwise, adds 1 to
\* nb_draws[my_arm] and to t, and stores has_collided = false; has_collided
\* is false in every state of a Selfish player.
C8_SelfishNoSensing ==
    [][ variant = "Selfish" =>
            /\ ~has_collided /\ ~has_collided'
            /\ ReceiveStep =>
                    /\ cum_rewards' = [cum_rewards EXCEPT ![my_arm] =
                                           @ + (IF args'[2] THEN 0 ELSE args'[1])]
                    /\ nb_draws' = [nb_draws EXCEPT ![my_arm] = @ + 1]
                    /\ t' = t + 1 ]_vars

\* a reward of 1 received with a collision: nothing was added
C8_Witness ==
    /\ variant = "Selfish" /\ op = "receive" /\ args = <<1, TRUE>>
    /\ cum_rewards[my_arm] = 0 /\ nb_draws[my_arm] = 2 /\ ~has_collided

\* C9: in PlayerRandTopOld, PlayerRandTop and PlayerMCTop the set the arm is
\* drawn from in the filtered branch is exactly {a : ucbs[a] <= ucbs[my_arm]}
\* intersected with {a : ucbs_new[a] >= the minimum of ucbs_new over the
\* top-M set}, and the new arm is any member of it.
C9_CandidateSet ==
    [][ (ChooseStep /\ branch' = "filtered") =>
            /\ variant \in {"RandTopOld", "RandTop", "MCTop"}
            /\ IsTopM(Range(best_arms'), ucbs')
            /\ drawn_from' =
                    {a \in ArmIds : ucbs[a] <= ucbs[my_arm]} \cap
                    {a \in ArmIds : ucbs'[a] >= MinOver(Range(best_arms'), ucbs')}
            /\ my_arm' \in drawn_from' ]_vars

\* a candidate set of two arms that is not the top-M set
C9_Witness ==
    /\ op = "choose" /\ branch = "filtered" /\ variant = "RandTopOld"
    /\ Cardinality(drawn_from) = 2 /\ drawn_from # Range(best_arms)
    /\ nb_arms = 3 /\ nb_players = 2

\* C10: for PlayerRandTopOld, PlayerRandTop and PlayerMCTop,
\* receive_reward(reward, collision) adds reward to cum_rewards[my_arm] and 1
\* to nb_draws[my_arm] and to t, stores has_collided = collision, and leaves
\* my_arm, is_on_chair, ucbs and the other arms' entries unchanged; t is the
\* sum of nb_draws in every state.
C10_BaseBookkeeping ==
    [][ /\ t = SumUpTo(nb_draws, nb_arms)
        /\ t' = SumUpTo(nb_draws', nb_arms)
        /\ (variant # "Selfish" /\ ReceiveStep) =>
            /\ my_arm \in ArmIds
            /\ \A a \in ArmIds :
                   /\ cum_rewards'[a] =
                          cum_rewards[a] + (IF a = my_arm THEN args'[1] ELSE 0)
                   /\ nb_draws'[a] = nb_draws[a] + (IF a = my_arm THEN 1 ELSE 0)
            /\ has_collided' = args'[2]
            /\ t' = t + 1
            /\ my_arm' = my_arm /\ is_on_chair' = is_on_chair
            /\ ucbs' = ucbs ]_vars

\* a PlayerMCTop on chair was paid a reward of 1 with a collision
C10_Witness ==
    /\ variant = "MCTop" /\ op = "receive" /\ args = <<1, TRUE>>
    /\ cum_rewards[my_arm] = 1 /\ nb_draws[my_arm] = 2
    /\ is_on_chair /\ has_collided

\* ------------------------------------------------- claims on construction
IsPlayerClass == variant \in {"Player", "OtherPlayer", "RandTopOld", "RandTop", "MCTop", "Selfish"}
IsOneOfTheFour == variant \in {"RandTopOld", "RandTop", "MCTop", "Selfish"}
CallFailed == built \in {"AssertionError", "ValueError"} /\ players = <<>> /\ op = "none"
Distinct(ps) == \A i, j \in DOMAIN ps : i # j => ps[i] # ps[j]

\* C11 as stated: once strategy(...) has been called with K >= M >= 1, it
\* has failed and built no player unless the class is one of the four
\* variants, and for one of the four it has returned nb_players instances.
C11_OnlyTheFourVariants ==
    (built \in {"returned", "AssertionError", "ValueError"} /\ nb_arms >= nb_players
        /\ nb_players >= 1)
    => IF IsOneOfTheFour
       THEN built = "returned" /\ Len(players) = nb_players
       ELSE CallFailed

\* C11 amended: strategy(...) fails, with AssertionError and no player built,
\* exactly when the class is not a sub-class of Player; the base class
\* Player and every sub-class of it, the four variants among them, are
\* accepted, and with counts >= 0 the call returns nb_players instances, no
\* two of them the same object.
C11_SubclassesOfPlayerAccepted ==
    /\ built = "AssertionError" => (~IsPlayerClass /\ CallFailed)
    /\ (built # "pending" /\ ~IsPlayerClass) => built = "AssertionError"
    /\ (built \notin {"pending", "constructed"} /\ IsPlayerClass /\ nb_arms >= 0
            /\ nb_players >= 0)
       => (built = "returned" /\ Len(players) = nb_players /\ Distinct(players))

\* the base class was handed to strategy() and two players came back
C11_Witness ==
    built = "returned" /\ variant = "Player" /\ Len(players) = 2 /\ op = "clear"

\* C12 as stated: a player built, or strategy() called, with K < M or with a
\* count that is not positive ends in an error and leaves no player.
C12_MalformedRejected ==
    (built # "pending" /\ (nb_arms < nb_players \/ nb_arms <= 0 \/ nb_players <= 0))
    => CallFailed

\* what is read through the j-th entry of the list of players
FieldsOf(j) == IF players[j] = players[cur] THEN fields ELSE heap[players[j]]
CallOnCur == built = "returned" /\ cur' = cur /\ state' # state

C14_CollisionChangesArm ==
    [][(variant = "RandTop" /\ nb_players >= 2 /\ PostWarmChoose /\ has_collided)
          => my_arm' # my_arm]_vars

\* the top-M set and the filtered candidate set of the call that is made
TopM == Range(best_arms')
Filtered ==
    {a \in ArmIds : ucbs[a] <= ucbs[my_arm] /\ ucbs'[a] >= MinOver(TopM, ucbs')}

\* C15: a PlayerMCTop.choose_arm_to_play after warm-start is in one of three
\* cases: (1) my_arm not in the top-M set: the new arm is in the filtered
\* candidate set and is_on_chair becomes false; (2) my_arm in the top-M set,
\* has_collided and not is_on_chair: the new arm is in the top-M set and
\* is_on_chair stays false; (3) otherwise my_arm is kept and is_on_chair
\* becomes true.  A call that ends on chair has kept my_arm, and is_on_chair
\* is false throughout warm-start.
C15_MCTopTransition ==
    [][(variant = "MCTop" /\ ChooseStep) =>
          /\ ~raised'
          /\ is_on_chair' => my_arm' = my_arm
          /\ IF SomeArmUnplayed
             THEN ~is_on_chair /\ ~is_on_chair'
             ELSE /\ IsTopM(TopM, ucbs')
                  /\ CASE my_arm \notin TopM ->
                              my_arm' \in Filtered /\ ~is_on_chair'
                       [] my_arm \in TopM /\ has_collided /\ ~is_on_chair ->
                              my_arm' \in TopM /\ ~is_on_chair'
                       [] OTHER ->
                              my_arm' = my_arm /\ is_on_chair']_vars

\* a second call after warm-start found the arm out of the top-M set
C15_Witness ==
    /\ variant = "MCTop" /\ op = "choose" /\ branch = "filtered"
    /\ ~is_on_chair /\ t = nb_arms + 1 /\ nb_players = 2

\* the outcomes (a, u) of a call made without a collision, as C16 has them:
\* for some top-M set S of u, my_arm is in S and a = my_arm, or my_arm is
\* not in S and a is in the filtered candidate set
OutcomeWithoutCollision(a, u) ==
    \E S \in SUBSET ArmIds :
        /\ IsTopM(S, u)
        /\ IF my_arm \in S
           THEN a = my_arm
           ELSE ucbs[a] <= ucbs[my_arm] /\ u[a] >= MinOver(S, u)

\* the call of the variant, when the policy returns u
DecisionOn(u) ==
    \E best \in top_arms(u) :
        IF variant = "RandTopOld"
        THEN RandTopOld_decide(u, best)
        ELSE RandTop_decide(u, best)

\* before a call after warm-start without a collision, the outcomes
\* (my_arm, ucbs) the call can have are the same set for both variants
C16_SameOutcomes ==
    (variant \in {"RandTopOld", "RandTop"} /\ op = "receive" /\ ~raised
        /\ EveryArmPlayed /\ ~has_collided)
    => \A a \in ArmIds : \A u \in IndexVectors :
           (ENABLED (DecisionOn(u) /\ my_arm' = a /\ ucbs' = u))
               <=> OutcomeWithoutCollision(a, u)

\* C16: after warm-start with my_arm not in the top-M set, PlayerRandTopOld
\* draws the arm from the whole top-M set if has_collided and from the
\* filtered candidate set if not, PlayerRandTop from the filtered candidate
\* set either way; without a collision the two variants have the same set
\* of outcomes (my_arm, ucbs) from the same state.
C16_ArmLeftTopM ==
    /\ []C16_SameOutcomes
    /\ [][(variant \in {"RandTopOld", "RandTop"} /\ PostWarmChoose
              /\ IsTopM(TopM, ucbs') /\ my_arm \notin TopM) =>
             IF variant = "RandTopOld" /\ has_collided
             THEN drawn_from' = TopM /\ my_arm' \in TopM
             ELSE drawn_from' = Filtered /\ my_arm' \in Filtered]_vars

\* PlayerRandTopOld drew from the whole top-M set: my_arm had left the set
\* and a collision was reported
C16_Witness ==
    /\ variant = "RandTopOld" /\ op = "choose" /\ branch = "best"
    /\ drawn_from = Range(best_arms) /\ nb_arms = 3 /\ nb_players = 2

\* C17: after warm-start PlayerSelfish.choose_arm_to_play returns an arm
\* whose index is the largest of the vector ucbs held when the call started,
\* any such arm, whatever has_collided and the top-M set are, and then
\* replaces ucbs by the vector the policy returns.
C17_SelfishSelection ==
    [][(variant = "Selfish" /\ PostWarmChoose) =>
          /\ ~raised'
          /\ drawn_from' = {a \in ArmIds : \A b \in ArmIds : ucbs[b] <= ucbs[a]}
          /\ my_arm' \in drawn_from'
          /\ ucbs' = last_index'
          /\ ucbs' \in IndexVectors]_vars

\* a second call after warm-start returned the arm of the largest index of
\* the vector held before, which is not the largest of the fresh vector
C17_Witness ==
    /\ variant = "Selfish" /\ op = "choose" /\ branch = "selfish"
    /\ t = nb_arms + 1 /\ nb_arms = 3
    /\ drawn_from = {my_arm}
    /\ \E b \in ArmIds : ucbs[b] > ucbs[my_arm]

\* C18: ucbs is the vector the last evaluation of the policy returned, or
\* all zeros if the policy was not evaluated since clear(); so
\* receive_reward and a warm-start call leave it as it is, and a call of
\* PlayerRandTopOld, PlayerRandTop or PlayerMCTop after warm-start ends with
\* the fresh vector in every branch.
C18_UcbsIsLastIndex ==
    /\ ucbs = IF last_index = <<>> THEN [a \in ArmIds |-> 0] ELSE last_index
    /\ (op = "choose" /\ branch = "warm") => last_index = <<>>
    /\ (op = "choose" /\ branch \in {"keep", "best", "filtered", "chair"})
          => (last_index # <<>> /\ ucbs = last_index)

\* a second call after warm-start kept my_arm and left the fresh vector,
\* which is not all zeros
C18_Witness ==
    /\ variant = "RandTopOld" /\ op = "choose" /\ branch = "keep"
    /\ t = nb_arms + 1 /\ nb_arms = 2 /\ ucbs[0] # ucbs[1] /\ last_index = ucbs

\* C19: the filtered candidate set is not empty when it is used.  Whenever
\* PlayerRandTopOld, PlayerRandTop or PlayerMCTop is about to be called after
\* warm-start, then for every index vector u the policy may return and
\* every top-M set S of u that my_arm is not in, some arm a has
\* ucbs[a] <= ucbs[my_arm] and u[a] >= the smallest u of S; and no call that
\* took the filtered branch has raised or drawn from an empty set.
C19_CandidateSetNotEmpty ==
    /\ (variant \in {"RandTopOld", "RandTop", "MCTop"} /\ op = "receive"
            /\ EveryArmPlayed /\ ~raised)
       => \A u \in [ArmIds -> 0 .. (nb_arms - 1)] : \A S \in SUBSET ArmIds :
              (IsTopM(S, u) /\ my_arm \notin S)
              => \E a \in ArmIds : ucbs[a] <= ucbs[my_arm] /\ u[a] >= MinOver(S, u)
    /\ (op = "choose" /\ branch = "filtered")
       => (~raised /\ drawn_from # {} /\ my_arm \in drawn_from)

\* PlayerMCTop drew from a filtered set of one arm out of three, in its
\* second call after warm-start
C19_Witness ==
    /\ variant = "MCTop" /\ op = "choose" /\ branch = "filtered"
    /\ Cardinality(drawn_from) = 1 /\ nb_arms = 3 /\ nb_players = 2
    /\ t = nb_arms + 1

\* the M-th largest value of u
MthLargest(u) ==
    CHOOSE v \in {u[a] : a \in ArmIds} :
        /\ Cardinality({a \in ArmIds : u[a] >= v}) >= nb_players
        /\ Cardinality({a \in ArmIds : u[a] > v}) < nb_players

\* C20: for PlayerRandTopOld, PlayerRandTop and PlayerMCTop, after every
\* call after warm-start, whatever its branch, ucbs[my_arm] is at least the
\* M-th largest value of the refreshed ucbs, and it still is when the next
\* call starts.
C20_PlaysAmongMBest ==
    (variant \in {"RandTopOld", "RandTop", "MCTop"} /\ EveryArmPlayed
        /\ op \in {"choose", "receive"})
    => (my_arm \in ArmIds /\ ucbs[my_arm] >= MthLargest(ucbs))

\* PlayerRandTop drew an arm from the filtered set; its index is the second
\* largest of three arms and above the third
C20_Witness ==
    /\ variant = "RandTop" /\ op = "choose" /\ branch = "filtered"
    /\ nb_arms = 3 /\ nb_players = 2
    /\ ucbs[my_arm] = MthLargest(ucbs)
    /\ \E b \in ArmIds : ucbs[b] < ucbs[my_arm]
    /\ \E b \in ArmIds : ucbs[b] > ucbs[my_arm]

====
